---- MODULE Spec2Model ----
(***************************************************************************)
(* tx-bot: the LimitChecker admission controller (src/src/limits.rs), the  *)
(* transaction generator (src/src/tx_genertor.rs, src/src/tx.rs) and the   *)
(* map_while loop that drives them (src/src/main.rs).                      *)
(*                                                                         *)
(* Every atomic load, fetch_add and fetch_sub of process_transaction is a  *)
(* step of its own, so that callers sharing one LimitChecker interleave    *)
(* exactly where SeqCst atomics let them.  The i64 / usize counters are    *)
(* modelled as unbounded integers: the configurations explored keep every  *)
(* sum many orders of magnitude below 2^63.                                *)
(***************************************************************************)
EXTENDS Integers, Sequences, FiniteSets, TLC

\* ---------------------------------------------------------------- bounds
NumWorkers == 2
MaxTotal == 2
MaxTx == 2
MaxCommission == 1
MaxChange == 1
MaxPrice == 1
WideTx == 4
WideChange == 2
MaxFails == 1

Workers == 1..NumWorkers

VARIABLES
    params,              \* EnvParams, cloned into LimitChecker.params
    rng,                 \* the outcomes rng.gen_range yields in this run
    transactions_count,  \* LimitChecker.transactions_count (AtomicUsize)
    current_amount,      \* LimitChecker.current_amount (AtomicI64)
    pc,                  \* per caller: position in the loop / in process_transaction
    tx,                  \* per caller: the transaction it holds
    seen_count,          \* per caller: check()'s local transactions_count
    exec,                \* per caller: what tx.execute() returned in this call
    ret,                 \* per caller: <<>> or <<value returned by process_transaction>>
    entry,               \* history: <<count, amount>> at call entry, <<>> once another caller wrote
    net,                 \* history: what this call has added to each counter so far
    okCount,             \* history: number of calls that returned a success message
    okAmount,            \* history: sum of the amounts of those calls
    sat,                 \* history: per caller, was the budget saturated when the item was pulled
    local_results,       \* per caller: the Vec<States> its map_while has collected
    results,             \* main's Arc<Mutex<Vec<States>>>, the vector
    mutex,               \* main's Arc<Mutex<Vec<States>>>, the holder of the lock (0: free)
    main_pc,             \* main: "run", "unwrapped", "displayed"
    final_results,       \* main: what unwrap_results returned
    output,              \* main: the lines display_results printed
    calls,               \* history: per caller, what each finished call returned
    writes,              \* history: per caller, counter writes made by the call so far
    cand                 \* history: per caller inside check, the pairs <<transactions_count,
                         \* current_amount>> the counters have held since check was entered

ctl == <<params, rng, transactions_count, current_amount, pc, tx, seen_count, exec, ret>>
hist == <<entry, net, okCount, okAmount, sat, calls, writes, cand>>
drv == <<local_results, results, mutex, main_pc, final_results, output>>

vars == <<params, rng, transactions_count, current_amount, pc, tx, seen_count, exec, ret,
          entry, net, okCount, okAmount, sat,
          local_results, results, mutex, main_pc, final_results, output,
          calls, writes, cand>>

\* ------------------------------------------------------------ data types
Finish == [tag |-> "Finish", msg |-> <<>>]
InProgres(m) == [tag |-> "InProgres", msg |-> m]

Ok(state) == [kind |-> "Ok", state |-> state]
Err == [kind |-> "Err", state |-> [tag |-> "Unit", msg |-> <<>>]]

EnvParamsSet ==
    [wallet : {"w"}, token : {"t"},
     total_amount : 0..MaxTotal,
     max_transactions : 0..MaxTx,
     commission : 0..MaxCommission,
     commission_change : 0..MaxChange,
     max_threads : {NumWorkers},
     price : 0..MaxPrice]

\* the configurations with the highest commission and no price
EnvParamsFair == {p \in EnvParamsSet : p.commission = MaxCommission /\ p.price = 0}

\* configurations with a higher transaction limit and a jitter above the commission
EnvParamsWide ==
    [wallet : {"w"}, token : {"t"},
     total_amount : {MaxTotal},
     max_transactions : {WideTx},
     commission : {MaxCommission},
     commission_change : {0, WideChange},
     max_threads : {NumWorkers},
     price : {0}]

\* SomeTransaction::default()
DefaultTransaction == [wallet |-> "", token |-> "", adjusted_commission |-> 0, price |-> 0]

\* SomeTransaction::new, for one outcome j of rng.gen_range(-change..=change)
NewTransaction(p, j) ==
    [wallet |-> p.wallet, token |-> p.token,
     adjusted_commission |-> p.commission + j, price |-> p.price]

Jitter(p) == (0 - p.commission_change)..p.commission_change

\* two of those outcomes: the lowest one and the one below the highest
LowAndHigh(p) == {0 - p.commission_change, p.commission_change - 1} \cap Jitter(p)

Amount(t) == t.adjusted_commission + t.price

Info(t) == <<"Wallet", t.wallet, "Token", t.token, "Commission", t.adjusted_commission,
             "Price", t.price, "Amount", Amount(t)>>

FailedTx == <<"failed tx">>

\* check with the count compared by <= instead of <
CheckOffByOne(count, amount, t) ==
    /\ count <= params.max_transactions
    /\ amount + Amount(t) <= params.total_amount

\* check that compares the amount already spent, without the new item
CheckSpentOnly(count, amount, t) ==
    /\ count < params.max_transactions
    /\ amount <= params.total_amount

\* LimitChecker::check, on the two values it loaded
Check(count, amount, t) ==
    /\ count < params.max_transactions
    /\ amount + Amount(t) <= params.total_amount

NoNet == [count |-> 0, amount |-> 0]

\* history: every other caller inside a call loses its entry snapshot
Disturb(w) == [u \in Workers |-> IF u = w THEN entry[u] ELSE <<>>]

\* history: what the call of w returns, appended to its record
Called(w, r) == [calls EXCEPT ![w] = Append(@, r)]

\* history: a write by w that leaves the counters at <<count, amount>>, seen from
\* the callers that are inside check
Seen(w, count, amount) ==
    [u \in Workers |->
        IF u # w /\ pc[u] \in {"load_count", "load_amount"}
          THEN cand[u] \cup {<<count, amount>>}
          ELSE cand[u]]

\* executions that failed so far, the ones being rolled back included
FailCount ==
    LET Failed(w) == Cardinality({i \in 1..Len(calls[w]) : calls[w][i] = Ok(InProgres(FailedTx))})
        Failing(w) == IF exec[w] = "err" /\ pc[w] \in {"sub_count", "sub_amount", "ret"}
                        THEN 1 ELSE 0
        Sum[S \in SUBSET Workers] ==
            IF S = {} THEN 0
            ELSE LET w == CHOOSE x \in S : TRUE
                 IN  Failed(w) + Failing(w) + Sum[S \ {w}]
    IN  Sum[Workers]

\* pool.install(op) runs op once, on one thread of the pool
InstallRuns == {1}

MinCost == params.commission - params.commission_change + params.price
MaxCost == params.commission + params.commission_change + params.price
Saturated == okAmount + MinCost > params.total_amount

\* ------------------------------------------------------------------ init
InitWith(running, configs) ==
    /\ params \in configs
    /\ transactions_count = 0
    /\ current_amount = 0
    /\ pc = [w \in Workers |-> IF w \in running THEN "pull" ELSE "off"]
    /\ tx = [w \in Workers |-> DefaultTransaction]
    /\ seen_count = [w \in Workers |-> 0]
    /\ exec = [w \in Workers |-> "none"]
    /\ ret = [w \in Workers |-> <<>>]
    /\ entry = [w \in Workers |-> <<>>]
    /\ net = [w \in Workers |-> NoNet]
    /\ okCount = 0
    /\ okAmount = 0
    /\ sat = [w \in Workers |-> FALSE]
    /\ local_results = [w \in Workers |-> <<>>]
    /\ results = <<>>
    /\ mutex = 0
    /\ main_pc = "run"
    /\ final_results = <<>>
    /\ output = <<>>
    /\ calls = [w \in Workers |-> <<>>]
    /\ writes = [w \in Workers |-> 0]
    /\ cand = [w \in Workers |-> {}]

\* every caller shares the one LimitChecker
Init == InitWith(Workers, EnvParamsSet) /\ rng = Jitter(params)

\* one caller only
InitSingle == InitWith(InstallRuns, EnvParamsSet) /\ rng = Jitter(params)

\* every caller shares the one LimitChecker, two outcomes of the generator
InitFair == InitWith(Workers, EnvParamsFair) /\ rng = LowAndHigh(params)

\* the same, wide configurations
InitWide == InitWith(Workers, EnvParamsWide) /\ rng = LowAndHigh(params)

\* --------------------------------------------------------------- actions
\* TransactionGenerator::next
GenNext(w) ==
    /\ pc[w] = "pull"
    /\ \E j \in rng :
          tx' = [tx EXCEPT ![w] = NewTransaction(params, j)]
    /\ pc' = [pc EXCEPT ![w] = "call"]
    /\ sat' = [sat EXCEPT ![w] = Saturated]
    /\ UNCHANGED <<params, rng, transactions_count, current_amount, seen_count, exec, ret,
                   entry, net, okCount, okAmount, calls, writes, cand>>
    /\ UNCHANGED drv

\* process_transaction without the early return on total_amount < tx_amount
BeginNoGuard(w) ==
    /\ pc[w] = "call"
    /\ entry' = [entry EXCEPT ![w] = <<transactions_count, current_amount>>]
    /\ pc' = [pc EXCEPT ![w] = "load_count"]
    /\ cand' = [cand EXCEPT ![w] = {<<transactions_count, current_amount>>}]
    /\ UNCHANGED <<params, rng, transactions_count, current_amount, tx, seen_count, exec,
                   ret, net, okCount, okAmount, sat, calls, writes>>
    /\ UNCHANGED drv

\* process_transaction, entry: total_amount < tx_amount returns Finish
Begin(w) ==
    /\ pc[w] = "call"
    /\ entry' = [entry EXCEPT ![w] = <<transactions_count, current_amount>>]
    /\ IF params.total_amount < Amount(tx[w])
         THEN /\ ret' = [ret EXCEPT ![w] = <<Ok(Finish)>>]
              /\ calls' = Called(w, Ok(Finish))
              /\ pc' = [pc EXCEPT ![w] = "ret"]
              /\ UNCHANGED cand
         ELSE /\ pc' = [pc EXCEPT ![w] = "load_count"]
              /\ cand' = [cand EXCEPT ![w] = {<<transactions_count, current_amount>>}]
              /\ UNCHANGED <<ret, calls>>
    /\ UNCHANGED <<params, rng, transactions_count, current_amount, tx, seen_count, exec,
                   net, okCount, okAmount, sat, writes>>
    /\ UNCHANGED drv

\* check: transactions_count.load
LoadCount(w) ==
    /\ pc[w] = "load_count"
    /\ seen_count' = [seen_count EXCEPT ![w] = transactions_count]
    /\ pc' = [pc EXCEPT ![w] = "load_amount"]
    /\ UNCHANGED <<params, rng, transactions_count, current_amount, tx, exec, ret,
                   entry, net, okCount, okAmount, sat, calls, writes, cand>>
    /\ UNCHANGED drv

\* check answering Finish after taking back a count that was never reserved
LoadAmountRollsBack(w) ==
    /\ pc[w] = "load_amount"
    /\ IF Check(seen_count[w], current_amount, tx[w])
         THEN /\ pc' = [pc EXCEPT ![w] = "add_count"]
              /\ cand' = [cand EXCEPT ![w] = {}]
              /\ UNCHANGED <<transactions_count, ret, calls, net, writes, entry>>
         ELSE /\ transactions_count' = transactions_count - 1
              /\ net' = [net EXCEPT ![w].count = @ - 1]
              /\ writes' = [writes EXCEPT ![w] = @ + 1]
              /\ entry' = Disturb(w)
              /\ cand' = [Seen(w, transactions_count - 1, current_amount) EXCEPT ![w] = {}]
              /\ ret' = [ret EXCEPT ![w] = <<Ok(Finish)>>]
              /\ calls' = Called(w, Ok(Finish))
              /\ pc' = [pc EXCEPT ![w] = "ret"]
    /\ seen_count' = [seen_count EXCEPT ![w] = 0]
    /\ UNCHANGED <<params, rng, current_amount, tx, exec, okCount, okAmount, sat>>
    /\ UNCHANGED drv

\* check: current_amount.load and the verdict; the else branch returns Finish
LoadAmount(w) ==
    /\ pc[w] = "load_amount"
    /\ IF Check(seen_count[w], current_amount, tx[w])
         THEN /\ pc' = [pc EXCEPT ![w] = "add_count"]
              /\ UNCHANGED <<ret, calls>>
         ELSE /\ ret' = [ret EXCEPT ![w] = <<Ok(Finish)>>]
              /\ calls' = Called(w, Ok(Finish))
              /\ pc' = [pc EXCEPT ![w] = "ret"]
    /\ seen_count' = [seen_count EXCEPT ![w] = 0]
    /\ cand' = [cand EXCEPT ![w] = {}]
    /\ UNCHANGED <<params, rng, transactions_count, current_amount, tx, exec,
                   entry, net, okCount, okAmount, sat, writes>>
    /\ UNCHANGED drv

\* reservation that counts the transaction twice
AddCountTwice(w) ==
    /\ pc[w] = "add_count"
    /\ transactions_count' = transactions_count + 2
    /\ net' = [net EXCEPT ![w].count = @ + 2]
    /\ writes' = [writes EXCEPT ![w] = @ + 1]
    /\ entry' = Disturb(w)
    /\ cand' = Seen(w, transactions_count + 2, current_amount)
    /\ pc' = [pc EXCEPT ![w] = "add_amount"]
    /\ UNCHANGED <<params, rng, current_amount, tx, seen_count, exec, ret,
                   okCount, okAmount, sat, calls>>
    /\ UNCHANGED drv

\* transactions_count.fetch_add(1)
AddCount(w) ==
    /\ pc[w] = "add_count"
    /\ transactions_count' = transactions_count + 1
    /\ net' = [net EXCEPT ![w].count = @ + 1]
    /\ writes' = [writes EXCEPT ![w] = @ + 1]
    /\ entry' = Disturb(w)
    /\ cand' = Seen(w, transactions_count + 1, current_amount)
    /\ pc' = [pc EXCEPT ![w] = "add_amount"]
    /\ UNCHANGED <<params, rng, current_amount, tx, seen_count, exec, ret,
                   okCount, okAmount, sat, calls>>
    /\ UNCHANGED drv

\* reservation that adds the price and forgets the commission
AddAmountPriceOnly(w) ==
    /\ pc[w] = "add_amount"
    /\ current_amount' = current_amount + tx[w].price
    /\ net' = [net EXCEPT ![w].amount = @ + tx[w].price]
    /\ writes' = [writes EXCEPT ![w] = @ + 1]
    /\ entry' = Disturb(w)
    /\ cand' = Seen(w, transactions_count, current_amount + tx[w].price)
    /\ pc' = [pc EXCEPT ![w] = "execute"]
    /\ UNCHANGED <<params, rng, transactions_count, tx, seen_count, exec, ret,
                   okCount, okAmount, sat, calls>>
    /\ UNCHANGED drv

\* reservation whose amount depends on something else than the item
AddAmountUnstable(w) ==
    /\ pc[w] = "add_amount"
    /\ \E d \in {0, 1} :
          /\ current_amount' = current_amount + Amount(tx[w]) - d
          /\ net' = [net EXCEPT ![w].amount = @ + Amount(tx[w]) - d]
          /\ cand' = Seen(w, transactions_count, current_amount + Amount(tx[w]) - d)
    /\ writes' = [writes EXCEPT ![w] = @ + 1]
    /\ entry' = Disturb(w)
    /\ pc' = [pc EXCEPT ![w] = "execute"]
    /\ UNCHANGED <<params, rng, transactions_count, tx, seen_count, exec, ret,
                   okCount, okAmount, sat, calls>>
    /\ UNCHANGED drv

\* current_amount.fetch_add(tx_amount)
AddAmount(w) ==
    /\ pc[w] = "add_amount"
    /\ current_amount' = current_amount + Amount(tx[w])
    /\ net' = [net EXCEPT ![w].amount = @ + Amount(tx[w])]
    /\ writes' = [writes EXCEPT ![w] = @ + 1]
    /\ entry' = Disturb(w)
    /\ cand' = Seen(w, transactions_count, current_amount + Amount(tx[w]))
    /\ pc' = [pc EXCEPT ![w] = "execute"]
    /\ UNCHANGED <<params, rng, transactions_count, tx, seen_count, exec, ret,
                   okCount, okAmount, sat, calls>>
    /\ UNCHANGED drv

\* tx.execute() and the Ok arm; at most MaxFails executions fail in a run
Execute(w) ==
    /\ pc[w] = "execute"
    /\ \/ /\ exec' = [exec EXCEPT ![w] = "ok"]
          /\ ret' = [ret EXCEPT ![w] = <<Ok(InProgres(Info(tx[w])))>>]
          /\ calls' = Called(w, Ok(InProgres(Info(tx[w]))))
          /\ okCount' = okCount + 1
          /\ okAmount' = okAmount + Amount(tx[w])
          /\ pc' = [pc EXCEPT ![w] = "ret"]
       \/ /\ FailCount < MaxFails
          /\ exec' = [exec EXCEPT ![w] = "err"]
          /\ pc' = [pc EXCEPT ![w] = "sub_count"]
          /\ UNCHANGED <<ret, calls, okCount, okAmount>>
    /\ UNCHANGED <<params, rng, transactions_count, current_amount, tx, seen_count,
                   entry, net, sat, writes, cand>>
    /\ UNCHANGED drv

\* Err arm that takes the count back twice
SubCountTwice(w) ==
    /\ pc[w] = "sub_count"
    /\ transactions_count' = transactions_count - 2
    /\ net' = [net EXCEPT ![w].count = @ - 2]
    /\ writes' = [writes EXCEPT ![w] = @ + 1]
    /\ entry' = Disturb(w)
    /\ cand' = Seen(w, transactions_count - 2, current_amount)
    /\ pc' = [pc EXCEPT ![w] = "sub_amount"]
    /\ UNCHANGED <<params, rng, current_amount, tx, seen_count, exec, ret,
                   okCount, okAmount, sat, calls>>
    /\ UNCHANGED drv

\* Err arm: transactions_count.fetch_sub(1)
SubCount(w) ==
    /\ pc[w] = "sub_count"
    /\ transactions_count' = transactions_count - 1
    /\ net' = [net EXCEPT ![w].count = @ - 1]
    /\ writes' = [writes EXCEPT ![w] = @ + 1]
    /\ entry' = Disturb(w)
    /\ cand' = Seen(w, transactions_count - 1, current_amount)
    /\ pc' = [pc EXCEPT ![w] = "sub_amount"]
    /\ UNCHANGED <<params, rng, current_amount, tx, seen_count, exec, ret,
                   okCount, okAmount, sat, calls>>
    /\ UNCHANGED drv

\* Err arm that leaves the amount reserved
SubAmountForgotten(w) ==
    /\ pc[w] = "sub_amount"
    /\ ret' = [ret EXCEPT ![w] = <<Ok(InProgres(FailedTx))>>]
    /\ calls' = Called(w, Ok(InProgres(FailedTx)))
    /\ pc' = [pc EXCEPT ![w] = "ret"]
    /\ UNCHANGED <<params, rng, transactions_count, current_amount, tx, seen_count, exec,
                   entry, net, okCount, okAmount, sat, writes, cand>>
    /\ UNCHANGED drv

\* Err arm that hands the execution failure on as Err(())
SubAmountErr(w) ==
    /\ pc[w] = "sub_amount"
    /\ current_amount' = current_amount - Amount(tx[w])
    /\ net' = [net EXCEPT ![w].amount = @ - Amount(tx[w])]
    /\ writes' = [writes EXCEPT ![w] = @ + 1]
    /\ entry' = Disturb(w)
    /\ cand' = Seen(w, transactions_count, current_amount - Amount(tx[w]))
    /\ ret' = [ret EXCEPT ![w] = <<Err>>]
    /\ calls' = Called(w, Err)
    /\ pc' = [pc EXCEPT ![w] = "ret"]
    /\ UNCHANGED <<params, rng, transactions_count, tx, seen_count, exec,
                   okCount, okAmount, sat>>
    /\ UNCHANGED drv

\* Err arm: current_amount.fetch_sub(tx_amount), then Ok(InProgres(err_mess))
SubAmount(w) ==
    /\ pc[w] = "sub_amount"
    /\ current_amount' = current_amount - Amount(tx[w])
    /\ net' = [net EXCEPT ![w].amount = @ - Amount(tx[w])]
    /\ writes' = [writes EXCEPT ![w] = @ + 1]
    /\ entry' = Disturb(w)
    /\ cand' = Seen(w, transactions_count, current_amount - Amount(tx[w]))
    /\ ret' = [ret EXCEPT ![w] = <<Ok(InProgres(FailedTx))>>]
    /\ calls' = Called(w, Ok(InProgres(FailedTx)))
    /\ pc' = [pc EXCEPT ![w] = "ret"]
    /\ UNCHANGED <<params, rng, transactions_count, tx, seen_count, exec,
                   okCount, okAmount, sat>>
    /\ UNCHANGED drv

\* closure that ends the loop on a failed execution as well
MapWhileStopsOnFailure(w) ==
    /\ pc[w] = "ret"
    /\ IF ret[w][1].kind = "Ok" /\ ret[w][1].state # Finish
          /\ ret[w][1].state # InProgres(FailedTx)
         THEN /\ pc' = [pc EXCEPT ![w] = "pull"]
              /\ local_results' = [local_results EXCEPT ![w] = Append(@, ret[w][1].state)]
         ELSE /\ pc' = [pc EXCEPT ![w] = "done"]
              /\ UNCHANGED local_results
    /\ tx' = [tx EXCEPT ![w] = DefaultTransaction]
    /\ ret' = [ret EXCEPT ![w] = <<>>]
    /\ exec' = [exec EXCEPT ![w] = "none"]
    /\ entry' = [entry EXCEPT ![w] = <<>>]
    /\ net' = [net EXCEPT ![w] = NoNet]
    /\ writes' = [writes EXCEPT ![w] = 0]
    /\ sat' = [sat EXCEPT ![w] = FALSE]
    /\ UNCHANGED <<params, rng, transactions_count, current_amount, seen_count,
                   okCount, okAmount, calls, cand>>
    /\ UNCHANGED <<results, mutex, main_pc, final_results, output>>

\* map_while closure: Ok(state) other than Finish is kept and the loop goes on;
\* anything else ends the loop, and collect() has the local Vec.  The call is
\* over: its transaction, its result and its history are dropped
MapWhile(w) ==
    /\ pc[w] = "ret"
    /\ IF ret[w][1].kind = "Ok" /\ ret[w][1].state # Finish
         THEN /\ pc' = [pc EXCEPT ![w] = "pull"]
              /\ local_results' = [local_results EXCEPT ![w] = Append(@, ret[w][1].state)]
         ELSE /\ pc' = [pc EXCEPT ![w] = "done"]
              /\ UNCHANGED local_results
    /\ tx' = [tx EXCEPT ![w] = DefaultTransaction]
    /\ ret' = [ret EXCEPT ![w] = <<>>]
    /\ exec' = [exec EXCEPT ![w] = "none"]
    /\ entry' = [entry EXCEPT ![w] = <<>>]
    /\ net' = [net EXCEPT ![w] = NoNet]
    /\ writes' = [writes EXCEPT ![w] = 0]
    /\ sat' = [sat EXCEPT ![w] = FALSE]
    /\ UNCHANGED <<params, rng, transactions_count, current_amount, seen_count,
                   okCount, okAmount, calls, cand>>
    /\ UNCHANGED <<results, mutex, main_pc, final_results, output>>

\* results.lock().unwrap()
Lock(w) ==
    /\ pc[w] = "done"
    /\ mutex = 0
    /\ mutex' = w
    /\ pc' = [pc EXCEPT ![w] = "locked"]
    /\ UNCHANGED <<params, rng, transactions_count, current_amount, tx, seen_count, exec, ret>>
    /\ UNCHANGED hist
    /\ UNCHANGED <<local_results, results, main_pc, final_results, output>>

\* extend that replaces what the vector held
ExtendOverwrites(w) ==
    /\ pc[w] = "locked"
    /\ results' = local_results[w]
    /\ local_results' = [local_results EXCEPT ![w] = <<>>]
    /\ mutex' = 0
    /\ pc' = [pc EXCEPT ![w] = "exit"]
    /\ UNCHANGED <<params, rng, transactions_count, current_amount, tx, seen_count, exec, ret>>
    /\ UNCHANGED hist
    /\ UNCHANGED <<main_pc, final_results, output>>

\* global_results.extend(local_results); the guard is dropped as the closure ends
Extend(w) ==
    /\ pc[w] = "locked"
    /\ results' = results \o local_results[w]
    /\ local_results' = [local_results EXCEPT ![w] = <<>>]
    /\ mutex' = 0
    /\ pc' = [pc EXCEPT ![w] = "exit"]
    /\ UNCHANGED <<params, rng, transactions_count, current_amount, tx, seen_count, exec, ret>>
    /\ UNCHANGED hist
    /\ UNCHANGED <<main_pc, final_results, output>>

\* unwrap_results, once every closure has returned: main holds the only Arc and
\* no holder of the lock panicked
UnwrapResults ==
    /\ main_pc = "run"
    /\ \A w \in Workers : pc[w] \in {"exit", "off"}
    /\ final_results' = results
    /\ main_pc' = "unwrapped"
    /\ UNCHANGED ctl
    /\ UNCHANGED hist
    /\ UNCHANGED <<local_results, results, mutex, output>>

\* the lines display_results prints for rs[i..]: index + 1 and the signature
RECURSIVE Lines(_, _)
Lines(rs, i) ==
    IF i > Len(rs) THEN <<>>
    ELSE IF rs[i].tag = "InProgres"
           THEN <<(<<i, rs[i].msg>>)>> \o Lines(rs, i + 1)
           ELSE Lines(rs, i + 1)

\* display_results
DisplayResults ==
    /\ main_pc = "unwrapped"
    /\ output' = Lines(final_results, 1)
    /\ main_pc' = "displayed"
    /\ UNCHANGED ctl
    /\ UNCHANGED hist
    /\ UNCHANGED <<local_results, results, mutex, final_results>>

Step(w) ==
    \/ GenNext(w)
    \/ Begin(w)
    \/ LoadCount(w)
    \/ LoadAmount(w)
    \/ AddCount(w)
    \/ AddAmount(w)
    \/ Execute(w)
    \/ SubCount(w)
    \/ SubAmount(w)
    \/ MapWhile(w)
    \/ Lock(w)
    \/ Extend(w)

Next ==
    \/ \E w \in Workers : Step(w)
    \/ UnwrapResults
    \/ DisplayResults

Spec == Init /\ [][Next]_vars

SpecSingle == InitSingle /\ [][Next]_vars

\* callers are OS threads: each one that can take a step eventually does
Fairness ==
    /\ \A w \in Workers : WF_vars(Step(w))
    /\ WF_vars(UnwrapResults)
    /\ WF_vars(DisplayResults)

FairSpec == InitFair /\ [][Next]_vars /\ Fairness

FairSpecWide == InitWide /\ [][Next]_vars /\ Fairness

\* the loop of w has ended
Ended(w) == pc[w] \in {"done", "locked", "exit"}

AllDone == \A w \in Workers : Ended(w) \/ pc[w] = "off"

\* ---------------------------------------------------------------- claims

\* C1: with a single caller, transactions_count never exceeds max_transactions,
\* the window between the fetch_add and the outcome of execute included.
C1_CountWithinLimit == transactions_count <= params.max_transactions

C1_Witness ==
    /\ pc[1] = "execute"
    /\ params.max_transactions > 0
    /\ transactions_count = params.max_transactions

\* C2: with a single caller and any item amounts (negative ones included),
\* current_amount never exceeds total_amount.
C2_AmountWithinLimit == current_amount <= params.total_amount

C2_Witness ==
    /\ pc[1] = "execute"
    /\ Amount(tx[1]) > 0
    /\ current_amount = params.total_amount

\* C3: with NumWorkers callers and every amount in 0..MaxCost, current_amount
\* never exceeds total_amount + (NumWorkers - 1) * MaxCost.
C3_AmountOvershootBounded ==
    MinCost >= 0 => current_amount <= params.total_amount + (NumWorkers - 1) * MaxCost

C3_Witness ==
    /\ MinCost >= 0
    /\ MaxCost > 0
    /\ current_amount = params.total_amount + (NumWorkers - 1) * MaxCost

\* C4: with NumWorkers callers, transactions_count never exceeds
\* max_transactions + NumWorkers - 1.
C4_CountOvershootBounded ==
    transactions_count <= params.max_transactions + NumWorkers - 1

C4_Witness ==
    /\ params.max_transactions > 0
    /\ transactions_count = params.max_transactions + NumWorkers - 1

\* C5: a caller about to load the counters never finds another caller's
\* reservation or rollback applied to one counter and not to the other.
C5_ReservationAtomic ==
    \A w \in Workers : \A u \in Workers \ {w} :
        pc[u] \in {"load_count", "load_amount"} =>
            net[w].amount = net[w].count * Amount(tx[w])

\* C6: a call whose execute failed returns InProgres("failed tx"), has added
\* nothing to either counter on balance, and, if no other caller wrote a counter
\* during the call, leaves both counters at their values at call entry.
C6_RollbackRoundTrip ==
    \A w \in Workers :
        (pc[w] = "ret" /\ exec[w] = "err") =>
            /\ ret[w] = <<Ok(InProgres(FailedTx))>>
            /\ net[w] = NoNet
            /\ (entry[w] # <<>> => entry[w] = <<transactions_count, current_amount>>)

C6_Witness ==
    \E w \in Workers :
        /\ pc[w] = "ret"
        /\ exec[w] = "err"
        /\ Amount(tx[w]) > 0
        /\ entry[w] = <<transactions_count, current_amount>>
        /\ transactions_count > 0

\* C7: a call with an amount above total_amount returns Finish, without calling
\* execute and without touching a counter, whatever the counters hold.
C7_TooExpensiveFinishes ==
    \A w \in Workers :
        (pc[w] = "ret" /\ Amount(tx[w]) > params.total_amount) =>
            /\ ret[w] = <<Ok(Finish)>>
            /\ exec[w] = "none"
            /\ net[w] = NoNet

C7_Witness ==
    \E w \in Workers :
        /\ pc[w] = "ret"
        /\ Amount(tx[w]) > params.total_amount
        /\ transactions_count > 0
        /\ transactions_count < params.max_transactions

\* C8: with a single caller, a call entered with amount <= total_amount,
\* transactions_count < max_transactions and current_amount + amount <=
\* total_amount calls execute, and if execute succeeds it returns
\* InProgres(info) with transactions_count one higher and current_amount higher
\* by the amount than at entry.
C8_AdmittedSuccess ==
    (pc[1] = "ret" /\ entry[1] # <<>>) =>
        ((/\ Amount(tx[1]) <= params.total_amount
          /\ entry[1][1] < params.max_transactions
          /\ entry[1][2] + Amount(tx[1]) <= params.total_amount) =>
            /\ exec[1] # "none"
            /\ exec[1] = "ok" =>
                  /\ ret[1] = <<Ok(InProgres(Info(tx[1])))>>
                  /\ transactions_count = entry[1][1] + 1
                  /\ current_amount = entry[1][2] + Amount(tx[1]))

C8_Witness ==
    /\ pc[1] = "ret"
    /\ exec[1] = "ok"
    /\ entry[1] # <<>>
    /\ entry[1][1] > 0
    /\ Amount(tx[1]) > 0
    /\ transactions_count = entry[1][1] + 1
    /\ current_amount = entry[1][2] + Amount(tx[1])

\* C9: every call that is entered comes back, and what it returns is Ok(Finish)
\* or Ok(InProgres(message)), never Err, also when the limits are exhausted or
\* execute failed.
C9_ReturnsOutcome ==
    /\ [](\A w \in Workers :
             pc[w] = "ret" =>
                 /\ Len(ret[w]) = 1
                 /\ ret[w][1].kind = "Ok"
                 /\ ret[w][1].state.tag \in {"Finish", "InProgres"})
    /\ \A w \in Workers : (pc[w] = "call") ~> (pc[w] = "ret")

C9_Witness ==
    \E w \in Workers : \E u \in Workers :
        /\ pc[w] = "ret" /\ exec[w] = "err" /\ ret[w][1].kind = "Ok"
        /\ pc[u] = "ret" /\ exec[u] = "none"  /\ ret[u][1] = Ok(Finish)
        /\ Amount(tx[u]) <= params.total_amount

\* C10 as stated: an item pulled when okAmount + cost > total_amount for every
\* cost the generator can produce is answered with Finish.
C10_SaturatedNextIsFinish ==
    \A w \in Workers :
        (pc[w] = "ret" /\ sat[w]) => ret[w] = <<Ok(Finish)>>

\* C10, amended: when no item amount is negative, an item pulled when
\* okAmount + cost > total_amount for every cost the generator can produce is
\* answered with Finish, and from such a moment on every loop ends.
C10_SaturatedLoopsEnd ==
    /\ [](MinCost >= 0 => C10_SaturatedNextIsFinish)
    /\ (MinCost >= 0 /\ Saturated) ~> AllDone

C10_Witness ==
    \E w \in Workers : \E u \in Workers \ {w} :
        /\ MinCost >= 0
        /\ pc[w] = "ret" /\ sat[w] /\ ret[w] = <<Ok(Finish)>>
        /\ pc[u] = "execute"
        /\ current_amount > params.total_amount

\* the Continuing outcomes among what the calls of w returned, in call order
ContinuingOf(w) ==
    LET kept == SelectSeq(calls[w], LAMBDA r : r.kind = "Ok" /\ r.state # Finish)
    IN  [i \in 1..Len(kept) |-> kept[i].state]

\* the orders in which the callers can take the lock
Orders ==
    {o \in [1..NumWorkers -> Workers] :
        \A a \in 1..NumWorkers : \A b \in 1..NumWorkers : a # b => o[a] # o[b]}

\* what the first n callers of order o produced, caller after caller
RECURSIVE Collected(_, _)
Collected(o, n) ==
    IF n = 0 THEN <<>> ELSE Collected(o, n - 1) \o ContinuingOf(o[n])

\* C11: once the run is over the result collection is, caller after caller in the
\* order they took the lock, exactly the Continuing outcomes each caller's calls
\* returned, in call order, and holds no Finish; and the collection only ever
\* changes by a caller whose loop has ended appending all of its outcomes.
C11_ResultsCollected ==
    /\ [](main_pc # "run" =>
             /\ \E o \in Orders : final_results = Collected(o, NumWorkers)
             /\ \A i \in 1..Len(final_results) : final_results[i] # Finish)
    /\ [][results' # results =>
             \E w \in Workers :
                 /\ Ended(w)
                 /\ results' = results \o ContinuingOf(w)]_vars

C11_Witness ==
    /\ main_pc = "unwrapped"
    /\ \A w \in Workers : Len(ContinuingOf(w)) >= 1
    /\ \E i \in 1..Len(final_results) : final_results[i] = InProgres(FailedTx)
    /\ \E i \in 1..Len(final_results) : final_results[i] # InProgres(FailedTx)
    /\ Len(final_results) >= 3

\* process_transaction run alone on counters <<count, amount>> for item t, where
\* execute succeeds iff ok: <<value returned, transactions_count, current_amount>>
Sequential(count, amount, t, ok) ==
    IF params.total_amount < Amount(t) THEN <<Ok(Finish), count, amount>>
    ELSE IF ~(count < params.max_transactions
              /\ amount + Amount(t) <= params.total_amount)
      THEN <<Ok(Finish), count, amount>>
    ELSE IF ok THEN <<Ok(InProgres(Info(t))), count + 1, amount + Amount(t)>>
    ELSE <<Ok(InProgres(FailedTx)), count, amount>>

\* C12: with a single caller, what a call returns and the counters it leaves are a
\* function of the configuration, the counters at call entry, the item and the
\* result of execute (where execute was not called, of the first three alone); the
\* counters of a fresh controller are 0, so equal item sequences with equal
\* execution results give equal outcome sequences and equal final counters.
C12_SingleCallerDeterministic ==
    /\ (pc[1] = "pull" /\ calls[1] = <<>>) =>
           (transactions_count = 0 /\ current_amount = 0)
    /\ pc[1] = "ret" =>
           /\ entry[1] # <<>>
           /\ \A ok \in BOOLEAN :
                  (exec[1] = "none" \/ ok = (exec[1] = "ok")) =>
                      <<ret[1][1], transactions_count, current_amount>> =
                          Sequential(entry[1][1], entry[1][2], tx[1], ok)

C12_Witness ==
    /\ pc[1] = "ret"
    /\ Len(calls[1]) >= 3
    /\ entry[1] # <<>>
    /\ entry[1][2] > 0
    /\ Amount(tx[1]) <= params.total_amount
    /\ ret[1] = <<Ok(Finish)>>
    /\ \E i \in 1..Len(calls[1]) : calls[1][i] = Ok(InProgres(FailedTx))

\* C13: a call that returns Finish, by the early return or by check, has written
\* neither counter and has not called execute; if no other caller wrote during
\* the call, both counters hold their values at call entry.
C13_FinishWritesNothing ==
    \A w \in Workers :
        (pc[w] = "ret" /\ ret[w] = <<Ok(Finish)>>) =>
            /\ writes[w] = 0
            /\ net[w] = NoNet
            /\ exec[w] = "none"
            /\ entry[w] # <<>> => entry[w] = <<transactions_count, current_amount>>

C13_Witness ==
    \E w \in Workers : \E u \in Workers \ {w} :
        /\ pc[w] = "ret" /\ ret[w] = <<Ok(Finish)>>
        /\ Amount(tx[w]) <= params.total_amount
        /\ entry[w] = <<transactions_count, current_amount>>
        /\ transactions_count > 0
        /\ pc[u] = "ret" /\ ret[u] = <<Ok(Finish)>>
        /\ Amount(tx[u]) > params.total_amount

\* C14: the pair <<transactions_count, current_amount>> on which check decides is
\* a pair the two counters held together at some instant since check was entered.
C14_CheckOnSnapshot ==
    \A w \in Workers :
        pc[w] = "load_amount" => <<seen_count[w], current_amount>> \in cand[w]

\* C15: the loop of a caller ends on its first Finish and on nothing else: a
\* Finish is the last value its calls returned, a caller whose loop ended has one
\* and neither pulls nor calls again; a returned Finish ends the loop and leaves the
\* local list alone, and any other returned value, "failed tx" included, is appended
\* to the local list and the next item is pulled.
C15_LoopEndsOnFirstFinish ==
    /\ [](\A w \in Workers :
            /\ \A i \in 1..Len(calls[w]) :
                   calls[w][i] = Ok(Finish) =>
                       (i = Len(calls[w]) /\ (pc[w] = "ret" \/ Ended(w)))
            /\ Ended(w) =>
                   (calls[w] # <<>> /\ calls[w][Len(calls[w])] = Ok(Finish)))
    /\ [][\A w \in Workers :
            /\ Ended(w) => (pc'[w] \in {"done", "locked", "exit"} /\ calls'[w] = calls[w])
            /\ (pc[w] = "ret" /\ pc'[w] # "ret") =>
                   IF ret[w] = <<Ok(Finish)>>
                     THEN pc'[w] = "done" /\ local_results'[w] = local_results[w]
                     ELSE /\ pc'[w] = "pull"
                          /\ local_results'[w] = Append(local_results[w], ret[w][1].state)]_vars

C15_Witness ==
    \E w \in Workers :
        /\ pc[w] = "done"
        /\ Len(local_results[w]) >= 2
        /\ local_results[w][1] = InProgres(FailedTx)
        /\ local_results[w][2] # InProgres(FailedTx)
        /\ \E u \in Workers \ {w} : pc[u] = "execute"

\* C16: when the run is over, each of the max_threads workers has run a loop of
\* its own to its end.
C16_EveryWorkerLoops ==
    main_pc # "run" => \A w \in 1..params.max_threads : Ended(w)

\* the callers between their first fetch_add and their return or rollback
InFlight == {w \in Workers : pc[w] \in {"add_amount", "execute", "sub_count", "sub_amount"}}

\* what the callers of S have added to the counters and not taken back
RECURSIVE Reserved(_)
Reserved(S) ==
    IF S = {} THEN NoNet
    ELSE LET w == CHOOSE x \in S : TRUE
             rest == Reserved(S \ {w})
         IN  [count |-> net[w].count + rest.count, amount |-> net[w].amount + rest.amount]

\* the successes among what the calls of the callers of S returned: their number
\* and the sum of the amounts their messages carry
RECURSIVE Succeeded(_)
Succeeded(S) ==
    IF S = {} THEN NoNet
    ELSE LET w == CHOOSE x \in S : TRUE
             rest == Succeeded(S \ {w})
             ok == SelectSeq(ContinuingOf(w), LAMBDA st : st # InProgres(FailedTx))
             Sum[i \in 0..Len(ok)] == IF i = 0 THEN 0 ELSE Sum[i - 1] + ok[i].msg[10]
         IN  [count |-> Len(ok) + rest.count, amount |-> Sum[Len(ok)] + rest.amount]

\* C17: each counter is the sum of what the calls that have incremented and not
\* decremented it contributed: the successful calls, plus for every call in flight
\* its increments minus its decrements so far (1 and the item's amount, in that
\* order, and back); with no call in flight the counters are the number of calls
\* that returned a success and the sum of their amounts.
C17_CountersConserved ==
    /\ transactions_count = Succeeded(Workers).count + Reserved(InFlight).count
    /\ current_amount = Succeeded(Workers).amount + Reserved(InFlight).amount
    /\ \A w \in Workers :
          /\ net[w].count = (IF pc[w] \in {"add_amount", "execute", "sub_count"}
                               \/ (pc[w] = "ret" /\ exec[w] = "ok") THEN 1 ELSE 0)
          /\ net[w].amount = (IF pc[w] \in {"execute", "sub_count", "sub_amount"}
                                \/ (pc[w] = "ret" /\ exec[w] = "ok")
                                THEN Amount(tx[w]) ELSE 0)
    /\ InFlight = {} => (transactions_count = okCount /\ current_amount = okAmount)

C17_Witness ==
    /\ Succeeded(Workers).count >= 1
    /\ Succeeded(Workers).amount >= 1
    /\ \E w \in Workers : \E u \in Workers \ {w} :
          /\ pc[w] = "sub_amount" /\ Amount(tx[w]) > 0
          /\ pc[u] = "add_amount" /\ Amount(tx[u]) > 0

\* C18: a fetch_sub is only made by a call that made the matching fetch_add before
\* and has not undone it, so transactions_count never goes below 0, and when no
\* item amount is negative current_amount never goes below 0.
C18_NoUnderflow ==
    /\ transactions_count >= 0
    /\ MinCost >= 0 => current_amount >= 0
    /\ \A w \in Workers :
          /\ pc[w] = "sub_count" => (writes[w] = 2 /\ net[w].count = 1)
          /\ pc[w] = "sub_amount" =>
                 (writes[w] = 3 /\ net[w] = [count |-> 0, amount |-> Amount(tx[w])])

C18_Witness ==
    \E w \in Workers : \E u \in Workers \ {w} :
        /\ MinCost >= 0
        /\ pc[w] = "ret" /\ exec[w] = "err" /\ Amount(tx[w]) > 0
        /\ transactions_count = 0
        /\ current_amount = 0
        /\ pc[u] = "load_amount" /\ seen_count[u] = 1

\* C19: when every item costs the same c > 0 and every caller's loop has ended,
\* the counters leave no room for one more item: transactions_count >=
\* max_transactions or current_amount + c > total_amount.
C19_NoCapacityStranded ==
    (/\ params.commission_change = 0
     /\ MinCost > 0
     /\ \A w \in Workers : Ended(w)) =>
        \/ transactions_count >= params.max_transactions
        \/ current_amount + MinCost > params.total_amount

C19_Witness ==
    \E w \in Workers : \E u \in Workers \ {w} :
        /\ params.commission_change = 0
        /\ MinCost > 0
        /\ MinCost <= params.total_amount
        /\ params.max_transactions = 1
        /\ Ended(w) /\ Ended(u)
        /\ calls[u] = <<Ok(Finish)>>
        /\ Len(calls[w]) = 3
        /\ calls[w][1] = Ok(InProgres(FailedTx))
        /\ transactions_count = 1

\* C20 as stated: as long as every execution has failed, no loop has ended.
C20_AllFailNeverEnds ==
    (MinCost > 0 /\ okCount = 0 /\ FailCount >= 1) => \A w \in Workers : ~Ended(w)

\* the run is over: every caller got its Finish and left, and main has printed
Completed ==
    /\ main_pc = "displayed"
    /\ \A w \in Workers :
          pc[w] = "exit" /\ calls[w] # <<>> /\ calls[w][Len(calls[w])] = Ok(Finish)

\* C20, amended: under fair scheduling, with positive item costs and executions
\* that fail at most MaxFails times, every caller gets Finish and the run completes;
\* as long as every execution has failed the counters are 0 whenever no call is in
\* flight, and if moreover every item costs the same c <= total_amount and
\* max_transactions > 0, some caller's loop is still running.
C20_RunCompletes ==
    /\ (MinCost > 0) ~> Completed
    /\ []((okCount = 0 /\ InFlight = {}) =>
             (transactions_count = 0 /\ current_amount = 0))
    /\ []((/\ okCount = 0
           /\ params.commission_change = 0
           /\ MinCost > 0
           /\ MinCost <= params.total_amount
           /\ params.max_transactions > 0) => \E w \in Workers : ~Ended(w))

C20_Witness ==
    /\ Completed
    /\ MinCost > 0
    /\ okCount >= 2
    /\ \E i \in 1..Len(output) : output[i][2] = FailedTx
    /\ \E w \in Workers : calls[w] = <<Ok(Finish)>>

====
